---- MODULE Spec2Model ----
(***************************************************************************)
(* The filter-graph wrapper of rsmpeg (src/src/avfilter/avfilter.rs):      *)
(* AVFilter, AVFilterContext, AVFilterInOut and AVFilterGraph, together    *)
(* with the part of the native engine's heap that the wrapper's ownership  *)
(* rules are about (graphs, filter contexts, AVFilterInOut list nodes).    *)
(*                                                                         *)
(* Every wrapper method is one action.  The foreign call it makes is an    *)
(* operator that yields the set of outcomes the engine may produce under   *)
(* the contract the wrapper's comments rely on; the action picks one.      *)
(***************************************************************************)
EXTENDS Integers, Sequences, FiniteSets, TLC

\* ------------------------------------------------------------------ bounds
MaxGraphs == 1      \* graphs ever allocated
MaxNodes  == 2      \* filter contexts ever created through create_filter_context
MaxInOut  == 3      \* AVFilterInOut list nodes ever allocated
MaxVals   == 4      \* AVFilterInOut wrapper values ever constructed
MaxHeld   == 1      \* AVFilter handles of one kind held at a time
MaxQueue  == 1      \* frames buffered between a source and a sink
MaxEofSeen == 2     \* BufferSinkEofError results counted per sink

Graphs     == 1..MaxGraphs
NodeAddrs  == 1..MaxNodes
InOutAddrs == 1..MaxInOut

\* --------------------------------------------------------- engine constants
AVERROR_EAGAIN == -11
AVERROR_EOF    == -541478725
\* The other negative statuses the engine reports: AVERROR(EINVAL), AVERROR(ENOMEM).
OtherErrors    == {-22, -12}

\* The kinds the engine registers, the ones the caller instantiates itself
\* (scale is instantiated by parse_ptr), and the names the caller looks up.
Registered == {"buffer", "buffersink", "scale"}
Kinds      == {"buffer", "buffersink"}
Names      == Registered \cup {"nosuchfilter"}

\* The frame the caller pushes; NoFrame stands for None.
GoodFrame == [w |-> 320, h |-> 240]
NoFrame   == [w |-> 0, h |-> 0]
Frames    == {GoodFrame}
\* The target of the filter description "scale=160:120".
ScaleTarget == [w |-> 160, h |-> 120]

VARIABLES
    registry,   \* engine: the static table of filter kinds
    held,       \* wrapper: AVFilter handles held, per kind
    graph,      \* engine: AVFilterGraph allocations
    node,       \* engine: AVFilterContext allocations
    handle,     \* wrapper: the AVFilterContextMut<'graph> borrow of each node
    inout,      \* engine: AVFilterInOut allocations
    padlist,    \* wrapper: every AVFilterInOut value constructed so far
    last,       \* the outcome of the last wrapper call
    misuse      \* a node operation reached the engine with a released node

vars == <<registry, held, graph, node, handle, inout, padlist, last, misuse>>

\* parsed: the filters parse_ptr has added to the graph ("none", "open" when
\* one of their pads is unlinked, "linked").
NoGraph == [st |-> "none", configured |-> FALSE, parsed |-> "none", queue |-> <<>>,
            eof |-> 0]
\* unreleased: output frames a pull on the node allocated and neither handed
\* to the caller nor released.
NoNode  == [st |-> "none", graph |-> 0, kind |-> "", open |-> FALSE, seen |-> 0,
            unreleased |-> 0]
\* own: whose memory the name is ("engine" or "caller").
NoInOut == [st |-> "none", name |-> "", own |-> "", ctx |-> 0, pad |-> 0, next |-> 0,
            frees |-> 0]
\* prev: what the call before a create_filter_context returned; for a
\* get_by_name, "dropped" when the call before dropped a handle of that name.
NoCall  == [op |-> "none", arg |-> 0, name |-> "", ret |-> 0, res |-> "Ok", frame |-> NoFrame,
            prev |-> ""]

Init ==
    /\ registry = Registered
    /\ held = [k \in Registered |-> 0]
    /\ graph = [g \in Graphs |-> NoGraph]
    /\ node = [a \in NodeAddrs |-> NoNode]
    /\ handle = [a \in NodeAddrs |-> "none"]
    /\ inout = [p \in InOutAddrs |-> NoInOut]
    /\ padlist = <<>>
    /\ last = NoCall
    /\ misuse = FALSE

\* ------------------------------------------------------------------ shared
\* RetUpgrade::upgrade on a status: negative is Err(status), the rest Ok(status).
upgrade(ret) == [ok |-> ret >= 0, v |-> ret]

\* The `?` on a Result<_, c_int>: the status is converted by From<c_int>,
\* with nothing of the call site in it.
From_c_int(ret) == "AVError"

Call(op, arg, name, ret, res) ==
    [op |-> op, arg |-> arg, name |-> name, ret |-> ret, res |-> res, frame |-> NoFrame,
     prev |-> ""]

Min(a, b) == IF a < b THEN a ELSE b

\* ---------------------------------------------------------------- AVFilter
\* ffi::avfilter_get_by_name: the registered kind of that name, or null ("").
avfilter_get_by_name(name) == IF name \in registry THEN name ELSE ""

get_by_name(name) ==
    LET filter == avfilter_get_by_name(name) IN
    /\ IF filter = ""
          THEN /\ last' = Call("get_by_name", 0, name, 0, "FilterNotFound")
               /\ UNCHANGED held
          ELSE /\ held[filter] < MaxHeld
               /\ held' = [held EXCEPT ![filter] = @ + 1]
               /\ last' = [Call("get_by_name", 0, name, 0, "Ok") EXCEPT !.prev =
                             IF last.op = "drop_filter" /\ last.name = name THEN "dropped" ELSE ""]
    /\ UNCHANGED <<registry, graph, node, handle, inout, padlist, misuse>>

\* A plausible slip: the drop unregisters (frees) the static filter.
Drop_AVFilter_frees(reg, k) == reg \ {k}

\* Drop for AVFilter: "Do nothing, filter is always static".
Drop_AVFilter(reg, k) == reg

AVFilter_drop(k) ==
    /\ held[k] > 0
    /\ held' = [held EXCEPT ![k] = @ - 1]
    /\ registry' = Drop_AVFilter(registry, k)
    /\ last' = Call("drop_filter", 0, k, 0, "Ok")
    /\ UNCHANGED <<graph, node, handle, inout, padlist, misuse>>

\* ----------------------------------------------------------- AVFilterGraph
\* ffi::avfilter_graph_alloc: a fresh allocation.
avfilter_graph_alloc == CHOOSE g \in Graphs : graph[g].st = "none" /\ \A h \in Graphs : h < g => graph[h].st # "none"

AVFilterGraph_new ==
    /\ \E g \in Graphs : graph[g].st = "none"
    /\ LET g == avfilter_graph_alloc IN
         /\ graph' = [graph EXCEPT ![g] = [NoGraph EXCEPT !.st = "live"]]
         /\ last' = Call("graph_new", 0, "", 0, "Ok")
    /\ UNCHANGED <<registry, held, node, handle, inout, padlist, misuse>>

NodesOf(g) == {a \in NodeAddrs : node[a].st = "live" /\ node[a].graph = g}

\* A plausible slip: node handles not tied to the graph by 'graph, so the
\* graph can be dropped while a handle is held.
CanDropGraph_unbound(g) == graph[g].st = "live"

\* A plausible change: pad lists carry the 'graph lifetime too, so that the
\* graph cannot be dropped while a pad list naming one of its nodes is owned.
CanDropGraph_padbound(g) ==
    /\ graph[g].st = "live"
    /\ \A a \in NodeAddrs : node[a].graph = g => handle[a] # "held"
    /\ \A v \in DOMAIN padlist :
          padlist[v].st = "owned" =>
              (inout[padlist[v].ptr].ctx \notin NodeAddrs
                 \/ node[inout[padlist[v].ptr].ctx].graph # g)

\* The borrow &'graph self held by every AVFilterContextMut<'graph>: the graph
\* can be dropped only when no handle created from it is still held.
CanDropGraph(g) ==
    /\ graph[g].st = "live"
    /\ \A a \in NodeAddrs : node[a].graph = g => handle[a] # "held"

\* Drop for AVFilterGraph: ffi::avfilter_graph_free releases the graph with
\* every filter context in it.
AVFilterGraph_drop(g) ==
    /\ CanDropGraph(g)
    /\ graph' = [graph EXCEPT ![g] = [@ EXCEPT !.st = "freed"]]
    /\ node' = [a \in NodeAddrs |->
                  IF a \in NodesOf(g) THEN [node[a] EXCEPT !.st = "freed"] ELSE node[a]]
    /\ last' = Call("graph_drop", g, "", 0, "Ok")
    /\ UNCHANGED <<registry, held, handle, inout, padlist, misuse>>

\* The arguments of create_filter_context: none, a valid string, an invalid one.
CreateArgs == {"none", "video_size=320x240", "video_size=-1x240"}

\* ffi::avfilter_graph_create_filter: the statuses the engine may return.
\* An invalid argument string is rejected.
avfilter_graph_create_filter_rets(args) ==
    IF args = "video_size=-1x240" THEN {-22} ELSE {0}

FreshNode == CHOOSE a \in NodeAddrs : node[a].st = "none" /\ \A b \in NodeAddrs : b < a => node[b].st # "none"

\* A plausible slip in the engine contract the wrapper relies on: adding a
\* filter moves the existing ones (their addresses die).
AddNode_moving(g, a, k) ==
    [b \in NodeAddrs |->
        IF b = a THEN [NoNode EXCEPT !.st = "live", !.graph = g, !.kind = k, !.open = TRUE]
        ELSE IF node[b].graph = g /\ node[b].st = "live" THEN [node[b] EXCEPT !.st = "freed"]
        ELSE node[b]]

\* The engine adds the new filter context and leaves every other one alone
\* ("We restrict the API for not removing filter").
AddNode(g, a, k) ==
    [node EXCEPT ![a] = [NoNode EXCEPT !.st = "live", !.graph = g, !.kind = k, !.open = TRUE]]

\* A plausible slip: a plain `?` instead of the map_err.
create_result_unmapped(r) == IF r.ok THEN "Ok" ELSE From_c_int(r.v)

\* .upgrade().map_err(|_| RsmpegError::CreateFilterError)?
create_result(r) == IF r.ok THEN "Ok" ELSE "CreateFilterError"

create_filter_context(g, k, args) ==
    /\ graph[g].st = "live"
    /\ held[k] > 0
    /\ \E a \in NodeAddrs : node[a].st = "none"
    /\ \E ret \in avfilter_graph_create_filter_rets(args) :
         LET r == upgrade(ret)
             a == FreshNode IN
         IF r.ok
           THEN /\ node' = AddNode(g, a, k)
                /\ handle' = [handle EXCEPT ![a] = "held"]
                /\ last' = [Call("create_filter_context", a, k, ret, create_result(r))
                              EXCEPT !.prev = last.res]
           ELSE /\ last' = Call("create_filter_context", g, k, ret, create_result(r))
                /\ UNCHANGED <<node, handle>>
    /\ UNCHANGED <<registry, held, graph, inout, padlist, misuse>>

\* The borrow of a node ends (the AVFilterContextMut goes out of scope).
AVFilterContextMut_drop(a) ==
    /\ handle[a] = "held"
    /\ handle' = [handle EXCEPT ![a] = "none"]
    /\ last' = Call("drop", 0, "", 0, "Ok")
    /\ UNCHANGED <<registry, held, graph, node, inout, padlist, misuse>>

\* --------------------------------------------------------- AVFilterContext
\* The node behind a handle has been released with its graph.
Released(a) == node[a].st # "live" \/ graph[node[a].graph].st # "live"

PropertyKeys == {"pix_fmts", "nosuchoption"}

\* ffi::av_opt_set_bin: the engine rejects a key the node does not have.
av_opt_set_bin_rets(a, key) == IF key = "pix_fmts" THEN {0} ELSE {-22}

\* A plausible slip: the status is dropped (`let _ =`) and Ok(()) returned.
set_property_result_swallowed(r) == "Ok"

\* .upgrade().map_err(|_| RsmpegError::SetPropertyError)?
set_property_result(r) == IF r.ok THEN "Ok" ELSE "SetPropertyError"

set_property(a, key) ==
    /\ handle[a] = "held"
    /\ \E ret \in av_opt_set_bin_rets(a, key) :
         last' = Call("set_property", a, key, ret, set_property_result(upgrade(ret)))
    /\ misuse' = (misuse \/ Released(a))
    /\ UNCHANGED <<registry, held, graph, node, handle, inout, padlist>>

\* A plausible slip: the source linked straight to the sink, the scale filter
\* left aside.
Deliver_unscaled(g, f) == f

\* What the graph makes of a frame on its way to the sink: a linked scale
\* filter gives it the size of its target.
Deliver(g, f) ==
    IF graph[g].parsed = "linked" THEN ScaleTarget ELSE f

\* ffi::av_buffersrc_add_frame_flags: the outcomes [ret, gr] the engine may
\* produce, gr being the state of the node's graph after the call.  A null
\* frame (NoFrame) marks the end of the stream on that source.  The wrapper
\* makes the call whatever the node and whether or not the graph has been
\* configured; with a node that is no source the outcome is the engine's to
\* choose, and on a graph not yet configured the engine may refuse the call
\* or go through with it.
av_buffersrc_add_frame_flags(a, f) ==
    LET gr == graph[node[a].graph]
        refused == {[ret |-> -22, gr |-> gr]}
        done == IF gr.eof # 0 THEN refused
                ELSE IF f = NoFrame
                  THEN {[ret |-> 0, gr |-> [gr EXCEPT !.eof = a]]}
                ELSE IF Len(gr.queue) < MaxQueue
                  THEN {[ret |-> 0, gr |-> [gr EXCEPT !.queue =
                                               Append(@, Deliver(node[a].graph, f))]]}
                ELSE {[ret |-> -12, gr |-> gr]}
    IN
    IF Released(a) \/ node[a].kind # "buffer"
      THEN {[ret |-> r, gr |-> gr] : r \in {0, -22}}
    ELSE IF ~gr.configured THEN refused \cup done
    ELSE done

\* A plausible slip: None handed over as an empty frame, not as null.
frame_ptr_never_null(frame) == IF frame = NoFrame THEN GoodFrame ELSE frame

\* The match on frame.as_mut(): the frame's pointer, null (NoFrame) for None.
frame_ptr(frame) == frame

\* A plausible slip: a plain `?` instead of the map_err.
buffersrc_result_unmapped(r) == IF r.ok THEN "Ok" ELSE From_c_int(r.v)

\* .upgrade().map_err(|_| RsmpegError::BufferSrcAddFrameError)?
buffersrc_result(r) == IF r.ok THEN "Ok" ELSE "BufferSrcAddFrameError"

\* frame is None (NoFrame) or Some(frame).
buffersrc_add_frame_flags(a, frame) ==
    /\ handle[a] = "held"
    /\ \E o \in av_buffersrc_add_frame_flags(a, frame_ptr(frame)) :
         /\ graph' = [graph EXCEPT ![node[a].graph] = o.gr]
         /\ last' = [Call("buffersrc_add_frame_flags", a, "", o.ret,
                           buffersrc_result(upgrade(o.ret)))
                       EXCEPT !.frame = frame]
    /\ misuse' = (misuse \/ Released(a))
    /\ UNCHANGED <<registry, held, node, handle, inout, padlist>>

\* ffi::av_buffersink_get_frame: the outcomes [ret, frame, gr] the engine may
\* produce: a buffered frame, try-again while the stream is open, end of
\* stream once it has ended and the buffer is drained.  As for the source,
\* the call is made whatever the node and the state of the graph.
av_buffersink_get_frame(a) ==
    LET gr == graph[node[a].graph]
        refused == {[ret |-> -22, frame |-> NoFrame, gr |-> gr]}
        done == IF gr.queue # <<>>
                  THEN {[ret |-> 0, frame |-> Head(gr.queue),
                         gr |-> [gr EXCEPT !.queue = Tail(@)]]}
                ELSE IF gr.eof # 0
                  THEN {[ret |-> AVERROR_EOF, frame |-> NoFrame, gr |-> gr]}
                ELSE {[ret |-> AVERROR_EAGAIN, frame |-> NoFrame, gr |-> gr]}
    IN
    IF Released(a) \/ node[a].kind # "buffersink"
      THEN {[ret |-> r, frame |-> NoFrame, gr |-> gr] :
                r \in {0, AVERROR_EAGAIN, AVERROR_EOF, -22}}
    ELSE IF ~gr.configured THEN refused \cup done
    ELSE done

\* A plausible slip: the try-again and the end-of-stream arms swapped.
buffersink_result_swapped(r) ==
    IF r.ok THEN "Ok"
    ELSE IF r.v = AVERROR_EAGAIN THEN "BufferSinkEofError"
    ELSE IF r.v = AVERROR_EOF THEN "BufferSinkDrainError"
    ELSE "BufferSinkGetFrameError"

\* A plausible slip: AVERROR_EAGAIN read as a binding, so that the first arm
\* takes every error.
buffersink_result_collapsed(r) ==
    IF r.ok THEN "Ok" ELSE "BufferSinkDrainError"

\* The match of buffersink_get_frame on the upgraded status.
buffersink_result(r) ==
    IF r.ok THEN "Ok"
    ELSE IF r.v = AVERROR_EAGAIN THEN "BufferSinkDrainError"
    ELSE IF r.v = AVERROR_EOF THEN "BufferSinkEofError"
    ELSE "BufferSinkGetFrameError"

\* AVFrame::new(): the frames it allocates.
AVFrame_new == 1

\* Drop for AVFrame on n frames held: the frame it wraps is released.
Drop_AVFrame(n) == n - 1

\* A plausible slip: the frame is leaked on the error arms (mem::forget, or
\* a raw pointer taken with into_raw).
buffersink_frame_left_forgetting(res) ==
    IF res = "Ok" THEN AVFrame_new - 1 ELSE AVFrame_new

\* What is left with the wrapper of the frame a pull allocates: Ok(frame)
\* moves it to the caller, on the three error arms the local goes out of
\* scope and drops.
buffersink_frame_left(res) ==
    IF res = "Ok" THEN AVFrame_new - 1 ELSE Drop_AVFrame(AVFrame_new)

buffersink_get_frame(a) ==
    /\ handle[a] = "held"
    /\ \E o \in av_buffersink_get_frame(a) :
         LET res == buffersink_result(upgrade(o.ret)) IN
         /\ graph' = [graph EXCEPT ![node[a].graph] = o.gr]
         /\ node' = [node EXCEPT ![a] = [@ EXCEPT
                        !.seen = IF res = "BufferSinkEofError" /\ node[a].kind = "buffersink"
                                   THEN Min(@ + 1, MaxEofSeen) ELSE @,
                        !.unreleased = @ + buffersink_frame_left(res)]]
         /\ last' = [Call("buffersink_get_frame", a, "", o.ret, res)
                       EXCEPT !.frame = IF res = "Ok" THEN o.frame ELSE NoFrame]
    /\ misuse' = (misuse \/ Released(a))
    /\ UNCHANGED <<registry, held, handle, inout, padlist>>

\* ----------------------------------------------------------- AVFilterInOut
\* The caller labels the pad of a source "in" and that of a sink "out".
PadNameOf(a) == IF node[a].kind = "buffer" THEN "in" ELSE "out"

\* The smallest address not yet allocated in heap h, 0 when there is none.
FreshInOut(h) ==
    IF \E p \in InOutAddrs : h[p].st = "none"
      THEN CHOOSE p \in InOutAddrs : h[p].st = "none" /\ \A q \in InOutAddrs : q < p => h[q].st # "none"
      ELSE 0

\* The list nodes reachable from p through next.
RECURSIVE Chain(_, _)
Chain(h, p) == IF p = 0 THEN {} ELSE {p} \cup Chain(h, h[p].next)

\* ffi::avfilter_inout_free: releases the whole list starting at p.
avfilter_inout_free(h, p) ==
    [q \in InOutAddrs |->
        IF q \in Chain(h, p) THEN [h[q] EXCEPT !.st = "freed", !.frees = @ + 1] ELSE h[q]]

\* A wrapper value: the pointer it wraps, whether it still owns it, whether it
\* has been an argument of parse_ptr, and how often its Drop has run.
from_raw(pl, p) == Append(pl, [ptr |-> p, st |-> "owned", parsed |-> "no", drops |-> 0])

\* A plausible slip: the caller's pointer stored as it is (name.as_ptr()).
av_strdup_borrowing(name) == [text |-> name, own |-> "caller"]

\* ffi::av_strdup: a copy of the string in memory of the engine's.
av_strdup(name) == [text |-> name, own |-> "engine"]

\* AVFilterInOut::new: one list node for pad 0 of the given node, with a
\* copy of the name and no next.
AVFilterInOut_new(name, a) ==
    /\ handle[a] = "held"
    /\ FreshInOut(inout) # 0
    /\ Len(padlist) < MaxVals
    /\ LET dup == av_strdup(name)
           inout_ptr == FreshInOut(inout) IN
         /\ inout' = [inout EXCEPT ![inout_ptr] =
                [st |-> "live", name |-> dup.text, own |-> dup.own, ctx |-> a, pad |-> 0,
                 next |-> 0, frees |-> 0]]
         /\ padlist' = from_raw(padlist, inout_ptr)
         /\ last' = Call("inout_new", a, name, 0, "Ok")
    /\ misuse' = (misuse \/ Released(a))
    /\ UNCHANGED <<registry, held, graph, node, handle>>

\* A plausible slip: the wrapper walks the list itself after the engine's
\* free routine has released it, and frees the rest a second time.
Drop_AVFilterInOut_traversing(w, v) ==
    [pl   |-> [w.pl EXCEPT ![v] = [@ EXCEPT !.st = "dropped", !.drops = @ + 1]],
     heap |-> avfilter_inout_free(avfilter_inout_free(w.heap, w.pl[v].ptr),
                                  w.heap[w.pl[v].ptr].next)]

\* Drop for AVFilterInOut on value v of the world w = [pl, heap]:
\* one call of avfilter_inout_free on the wrapped pointer.
Drop_AVFilterInOut(w, v) ==
    [pl   |-> [w.pl EXCEPT ![v] = [@ EXCEPT !.st = "dropped", !.drops = @ + 1]],
     heap |-> avfilter_inout_free(w.heap, w.pl[v].ptr)]

\* A plausible slip: the pointer is read (as_mut_ptr) and the value stays an
\* owner.
into_raw_keeping(w, v) == w

\* into_raw: the value gives its pointer away and its Drop never runs.
into_raw(w, v) ==
    [pl |-> [w.pl EXCEPT ![v] = [@ EXCEPT !.st = "disarmed"]], heap |-> w.heap]

\* An owned pad list goes out of scope.
AVFilterInOut_drop(v) ==
    /\ v \in DOMAIN padlist
    /\ padlist[v].st = "owned"
    /\ LET w == Drop_AVFilterInOut([pl |-> padlist, heap |-> inout], v) IN
         /\ padlist' = w.pl
         /\ inout' = w.heap
    /\ last' = Call("drop", 0, "", 0, "Ok")
    /\ UNCHANGED <<registry, held, graph, node, handle, misuse>>

\* ------------------------------------------------- AVFilterGraph::parse_ptr
\* A description the engine accepts, and one it rejects.
ParseSpecs == {"scale=160:120", "scale=160:"}

\* What the engine makes of one list it is given: it links it (and frees it),
\* leaves it open and hands the same memory back, links it and hands back a
\* fresh list for a pad of the new filter, or hands back a fresh list node
\* in front of it.
Resolutions == {"linked", "same", "fresh", "chain"}

CanResolve(h, c) == c \in {"linked", "same"} \/ FreshInOut(h) # 0

\* A list node the engine allocates for an open pad of a parsed filter
\* (ctx -1: a filter context the wrapper has no handle of).
NewInOut(nx) ==
    [st |-> "live", name |-> "default", own |-> "engine", ctx |-> -1, pad |-> 0, next |-> nx,
     frees |-> 0]

Resolve(h, p, c) ==
    LET q == FreshInOut(h) IN
    CASE c = "linked" -> [ptr |-> 0, heap |-> avfilter_inout_free(h, p)]
      [] c = "same"   -> [ptr |-> p, heap |-> h]
      [] c = "fresh"  -> [ptr |-> q, heap |-> [avfilter_inout_free(h, p) EXCEPT ![q] = NewInOut(0)]]
      [] c = "chain"  -> [ptr |-> q, heap |-> [h EXCEPT ![q] = NewInOut(p)]]

\* The filter contexts the lists of a linked argument name.
LinkedCtx(h, p, c) ==
    IF c \in {"linked", "fresh"} THEN {h[q].ctx : q \in Chain(h, p)} ELSE {}

ParseOutcome(g, inputs, outputs, ci, co) ==
    LET r1 == Resolve(inout, inputs, ci)
        r2 == Resolve(r1.heap, outputs, co)
        linked == LinkedCtx(inout, inputs, ci) \cup LinkedCtx(inout, outputs, co)
    IN  [ret |-> 0, inputs |-> r1.ptr, outputs |-> r2.ptr, heap |-> r2.heap,
         parsed |-> IF ci = "linked" /\ co = "linked" /\ graph[g].parsed # "open"
                      THEN "linked" ELSE "open",
         nodes |-> [b \in NodeAddrs |->
            IF b \in linked /\ b \in NodesOf(g)
              THEN [node[b] EXCEPT !.open = FALSE]
              ELSE node[b]]]

\* A plausible slip in the engine contract the wrapper relies on: a failed
\* parse tears down the filters already in the graph.
avfilter_graph_parse_ptr_removing(g, spec, inputs, outputs) ==
    LET left == [ret |-> -22, inputs |-> inputs, outputs |-> outputs, heap |-> inout,
                 parsed |-> "none",
                 nodes |-> [b \in NodeAddrs |->
                              IF b \in NodesOf(g) THEN [node[b] EXCEPT !.st = "freed"]
                              ELSE node[b]]]
    IN
    IF spec # "scale=160:120"
      THEN {left}
      ELSE {ParseOutcome(g, inputs, outputs, c[1], c[2]) :
              c \in {d \in Resolutions \X Resolutions :
                        /\ CanResolve(inout, d[1])
                        /\ CanResolve(Resolve(inout, inputs, d[1]).heap, d[2])}}

\* ffi::avfilter_graph_parse_ptr: the outcomes the engine may produce.  On an
\* error the two lists are left to the caller and the graph may have been
\* partially modified; on success they are the engine's.
avfilter_graph_parse_ptr(g, spec, inputs, outputs) ==
    LET left == [ret |-> -22, inputs |-> inputs, outputs |-> outputs, heap |-> inout,
                 parsed |-> graph[g].parsed, nodes |-> node]
    IN
    IF spec # "scale=160:120"
      THEN {left, [left EXCEPT !.parsed = "open"]}
      ELSE {ParseOutcome(g, inputs, outputs, c[1], c[2]) :
              c \in {d \in Resolutions \X Resolutions :
                        /\ CanResolve(inout, d[1])
                        /\ CanResolve(Resolve(inout, inputs, d[1]).heap, d[2])}}

\* A plausible slip: no into_raw, so the arguments drop at the end of the call
\* although the engine has taken them.
parse_ptr_ok_dropping(w, vi, vo, inputs_new, outputs_new) ==
    LET pl1 == IF inputs_new # 0 THEN from_raw(w.pl, inputs_new) ELSE w.pl
        pl2 == IF outputs_new # 0 THEN from_raw(pl1, outputs_new) ELSE pl1
    IN  Drop_AVFilterInOut(Drop_AVFilterInOut([pl |-> pl2, heap |-> w.heap], vo), vi)

\* The success path: both arguments are erased without dropping, and each
\* non-null pointer the engine left becomes an owned value.
parse_ptr_ok(w, vi, vo, inputs_new, outputs_new) ==
    LET w1  == into_raw(into_raw(w, vi), vo)
        pl1 == IF inputs_new # 0 THEN from_raw(w1.pl, inputs_new) ELSE w1.pl
        pl2 == IF outputs_new # 0 THEN from_raw(pl1, outputs_new) ELSE pl1
    IN  [pl |-> pl2, heap |-> w1.heap]

\* A plausible slip: the arguments are erased before the status is looked at,
\* so nothing releases them on the error path.
parse_ptr_err_leaking(w, vi, vo) == into_raw(into_raw(w, vi), vo)

\* The error path: `?` returns and the two arguments drop.
parse_ptr_err(w, vi, vo) == Drop_AVFilterInOut(Drop_AVFilterInOut(w, vo), vi)

Mark(pl, v, how) == [pl EXCEPT ![v] = [@ EXCEPT !.parsed = how]]

NonNull(o) == (IF o.inputs # 0 THEN 1 ELSE 0) + (IF o.outputs # 0 THEN 1 ELSE 0)

parse_ptr(g, spec, vi, vo) ==
    /\ graph[g].st = "live"
    /\ vi \in DOMAIN padlist /\ vo \in DOMAIN padlist /\ vi # vo
    /\ padlist[vi].st = "owned" /\ padlist[vo].st = "owned"
    /\ \E o \in avfilter_graph_parse_ptr(g, spec, padlist[vi].ptr, padlist[vo].ptr) :
         LET r == upgrade(o.ret)
             how == IF r.ok THEN "ok" ELSE "err"
             w0 == [pl |-> Mark(Mark(padlist, vi, how), vo, how), heap |-> o.heap]
             w  == IF r.ok THEN parse_ptr_ok(w0, vi, vo, o.inputs, o.outputs)
                   ELSE parse_ptr_err(w0, vi, vo)
         IN
         /\ r.ok => Len(padlist) + NonNull(o) <= MaxVals
         /\ padlist' = w.pl
         /\ inout' = w.heap
         /\ node' = o.nodes
         /\ graph' = [graph EXCEPT ![g] = [@ EXCEPT !.parsed = o.parsed]]
         /\ last' = Call("parse_ptr", g, spec, o.ret, IF r.ok THEN "Ok" ELSE From_c_int(o.ret))
    /\ UNCHANGED <<registry, held, handle, misuse>>

\* ---------------------------------------------------- AVFilterGraph::config
\* ffi::avfilter_graph_config: a graph with an unlinked pad is invalid; a
\* fully linked one may still fail on its formats.
avfilter_graph_config_rets(g) ==
    IF graph[g].parsed = "open" \/ \E n \in NodesOf(g) : node[n].open THEN {-22} ELSE {0, -22}

\* A plausible slip: the status is dropped and Ok(()) returned.
config_result_swallowed(r) == "Ok"

\* .upgrade()?; Ok(())
config_result(r) == IF r.ok THEN "Ok" ELSE From_c_int(r.v)

config(g) ==
    /\ graph[g].st = "live"
    /\ \E ret \in avfilter_graph_config_rets(g) :
         LET r == upgrade(ret) IN
         /\ graph' = [graph EXCEPT ![g] = [@ EXCEPT !.configured = (@ \/ r.ok)]]
         /\ last' = Call("config", g, "", ret, config_result(r))
    /\ UNCHANGED <<registry, held, node, handle, inout, padlist, misuse>>

\* ------------------------------------------------------------ specification
Lookup ==
    \/ \E name \in Names : get_by_name(name)
    \/ \E k \in Registered : AVFilter_drop(k)

Build ==
    \/ AVFilterGraph_new
    \/ \E g \in Graphs : AVFilterGraph_drop(g)
    \/ \E g \in Graphs, k \in Kinds, args \in CreateArgs : create_filter_context(g, k, args)
    \/ \E a \in NodeAddrs : AVFilterContextMut_drop(a)

Wire ==
    \/ \E a \in NodeAddrs : AVFilterInOut_new(PadNameOf(a), a)
    \/ \E v \in 1..MaxVals : AVFilterInOut_drop(v)
    \/ \E g \in Graphs, spec \in ParseSpecs, vi \in 1..MaxVals, vo \in 1..MaxVals :
            parse_ptr(g, spec, vi, vo)

Stream ==
    \/ \E a \in NodeAddrs, key \in PropertyKeys : set_property(a, key)
    \/ \E a \in NodeAddrs, f \in Frames \cup {NoFrame} : buffersrc_add_frame_flags(a, f)
    \/ \E a \in NodeAddrs : buffersink_get_frame(a)

\* The caller has looked up the kinds it instantiates.
InitHeld ==
    /\ registry = Registered
    /\ held = [k \in Registered |-> IF k \in Kinds THEN 1 ELSE 0]
    /\ graph = [g \in Graphs |-> NoGraph]
    /\ node = [a \in NodeAddrs |-> NoNode]
    /\ handle = [a \in NodeAddrs |-> "none"]
    /\ inout = [p \in InOutAddrs |-> NoInOut]
    /\ padlist = <<>>
    /\ last = NoCall
    /\ misuse = FALSE

\* The caller has assembled source -> scale -> sink in graph 1: it created the
\* source (node 1) and the sink (node 2), a pad list for each, and parse_ptr
\* linked both.  The graph is not yet configured.
InitWired ==
    /\ registry = Registered
    /\ held = [k \in Registered |-> IF k \in Kinds THEN 1 ELSE 0]
    /\ graph = [g \in Graphs |->
                  IF g = 1 THEN [NoGraph EXCEPT !.st = "live", !.parsed = "linked"] ELSE NoGraph]
    /\ node = [a \in NodeAddrs |->
                  IF a = 1 THEN [NoNode EXCEPT !.st = "live", !.graph = 1, !.kind = "buffer"]
                  ELSE IF a = 2 THEN [NoNode EXCEPT !.st = "live", !.graph = 1, !.kind = "buffersink"]
                  ELSE NoNode]
    /\ handle = [a \in NodeAddrs |-> IF a \in {1, 2} THEN "held" ELSE "none"]
    /\ inout = [p \in InOutAddrs |->
                  IF p = 1 THEN [st |-> "freed", name |-> "in", own |-> "engine", ctx |-> 1, pad |-> 0,
                                next |-> 0, frees |-> 1]
                  ELSE IF p = 2 THEN [st |-> "freed", name |-> "out", own |-> "engine", ctx |-> 2,
                                      pad |-> 0, next |-> 0, frees |-> 1]
                  ELSE NoInOut]
    /\ padlist = << [ptr |-> 1, st |-> "disarmed", parsed |-> "ok", drops |-> 0],
                    [ptr |-> 2, st |-> "disarmed", parsed |-> "ok", drops |-> 0] >>
    /\ last = Call("parse_ptr", 1, "scale=160:120", 0, "Ok")
    /\ misuse = FALSE

\* Assembly: graphs, nodes, pad lists, parse and configure.
Next == Build \/ Wire \/ (\E g \in Graphs : config(g))

Spec == InitHeld /\ [][Next]_vars

\* Kinds: lookup and release of static filters, around graphs and nodes.
NextKinds == Lookup \/ Build

SpecKinds == Init /\ [][NextKinds]_vars

\* Streaming on the assembled graph, with the node and pad-list operations
\* that stay available while it runs.
NextStream ==
    \/ \E g \in Graphs : config(g)
    \/ Stream
    \/ \E a \in NodeAddrs : AVFilterInOut_new(PadNameOf(a), a)
    \/ \E v \in 1..MaxVals : AVFilterInOut_drop(v)
    \/ \E a \in NodeAddrs : AVFilterContextMut_drop(a)
    \/ \E g \in Graphs : AVFilterGraph_drop(g)

SpecStream == InitWired /\ [][NextStream]_vars

\* Streaming with a caller that keeps pulling.
SpecStreamFair ==
    SpecStream /\ \A a \in NodeAddrs : WF_vars(buffersink_get_frame(a))

\* The state InitWired describes is one the assembly reaches.
NotWired == ~InitWired

\* The caller has a graph, a source in it (node 1) and a pad list for the
\* source; the sink is still to be created.
InitOps ==
    /\ registry = Registered
    /\ held = [k \in Registered |-> IF k \in Kinds THEN 1 ELSE 0]
    /\ graph = [g \in Graphs |-> IF g = 1 THEN [NoGraph EXCEPT !.st = "live"] ELSE NoGraph]
    /\ node = [a \in NodeAddrs |->
                  IF a = 1 THEN [NoNode EXCEPT !.st = "live", !.graph = 1, !.kind = "buffer", !.open = TRUE]
                  ELSE NoNode]
    /\ handle = [a \in NodeAddrs |-> IF a = 1 THEN "held" ELSE "none"]
    /\ inout = [p \in InOutAddrs |->
                  IF p = 1 THEN [st |-> "live", name |-> "in", own |-> "engine", ctx |-> 1, pad |-> 0,
                                next |-> 0, frees |-> 0]
                  ELSE NoInOut]
    /\ padlist = << [ptr |-> 1, st |-> "owned", parsed |-> "no", drops |-> 0] >>
    /\ last = Call("inout_new", 1, "in", 0, "Ok")
    /\ misuse = FALSE

\* Every operation on a graph, its nodes and its pad lists, from assembly to
\* streaming and release.
NextOps ==
    \/ \E g \in Graphs, k \in Kinds, args \in CreateArgs : create_filter_context(g, k, args)
    \/ \E a \in NodeAddrs : AVFilterContextMut_drop(a)
    \/ \E g \in Graphs : AVFilterGraph_drop(g)
    \/ Wire
    \/ \E g \in Graphs : config(g)
    \/ Stream

SpecOps == InitOps /\ [][NextOps]_vars

\* The state InitOps describes is one the assembly reaches.
NotOps == ~InitOps

\* ------------------------------------------------------------------ claims
Vals == DOMAIN padlist

\* C1: after a successful parse_ptr both pad-list arguments are disarmed: the
\* Drop of neither ever runs, at the end of the call or later, whether the
\* engine linked the list or handed it back.
C1_ArgsDisarmed ==
    \A v \in Vals :
        padlist[v].parsed = "ok" => padlist[v].st = "disarmed" /\ padlist[v].drops = 0

\* A successful parse whose argument the engine did not link: it handed the
\* same list back, and the caller has since dropped the returned value.
C1_Witness ==
    \E v, u \in Vals :
        /\ padlist[v].parsed = "ok" /\ padlist[v].st = "disarmed"
        /\ u # v /\ padlist[u].ptr = padlist[v].ptr /\ padlist[u].st = "dropped"

\* The release of the arguments of a failed parse: each dropped once, and each
\* list node of theirs freed once.
FailedArgsReleasedOnce ==
    \A v \in Vals :
        padlist[v].parsed = "err" =>
            /\ padlist[v].st = "dropped" /\ padlist[v].drops = 1
            /\ \A q \in Chain(inout, padlist[v].ptr) :
                   inout[q].st = "freed" /\ inout[q].frees = 1

IsPull == last.op = "buffersink_get_frame"
IsPush == last.op = "buffersrc_add_frame_flags"
IsSink(a) == node[a].kind = "buffersink"
IsSource(a) == node[a].kind = "buffer"

\* C3: buffersink_get_frame has four outcomes, decided by the engine's
\* status alone: Ok with the frame, BufferSinkDrainError for try-again,
\* BufferSinkEofError for end of stream, BufferSinkGetFrameError for every
\* other negative status; try-again and end of stream never share a result.
C3_PullOutcomes ==
    IsPull =>
        /\ last.res = "Ok" <=> last.ret >= 0
        /\ last.res = "BufferSinkDrainError" <=> last.ret = AVERROR_EAGAIN
        /\ last.res = "BufferSinkEofError" <=> last.ret = AVERROR_EOF
        /\ last.res = "BufferSinkGetFrameError" <=>
               (last.ret < 0 /\ last.ret \notin {AVERROR_EAGAIN, AVERROR_EOF})
        /\ (last.res = "Ok" /\ IsSink(last.arg)) => last.frame \in {GoodFrame, ScaleTarget}
        /\ last.res # "Ok" => last.frame = NoFrame

\* A pull on the sink has just met the end of the stream.
C3_Witness == IsPull /\ IsSink(last.arg) /\ last.res = "BufferSinkEofError"

\* C4: a held node handle always belongs to a live node of a live graph, and
\* no node operation (set_property, push, pull, AVFilterInOut::new) has ever
\* been made on a node whose graph was released.
C4_HandlesWithinGraph ==
    /\ ~misuse
    /\ \A a \in NodeAddrs : handle[a] = "held" => ~Released(a)

\* A graph has been released, with the nodes created in it.
C4_Witness ==
    \E g \in Graphs :
        /\ graph[g].st = "freed"
        /\ \E a \in NodeAddrs : node[a].graph = g /\ node[a].st = "freed" /\ handle[a] = "none"

\* C5: a create_filter_context only adds a node: every node that exists keeps
\* its address, its graph, its kind and its state, and every handle stays as
\* it was.
C5_InstantiateOnlyAdds ==
    [][last'.op = "create_filter_context" =>
          \A a \in NodeAddrs :
              node[a].st # "none" => node'[a] = node[a] /\ handle'[a] = handle[a]]_vars

\* A node has just been created while the handle of an earlier one is held.
C5_Witness ==
    /\ last.op = "create_filter_context" /\ last.res = "Ok"
    /\ \E a \in NodeAddrs : a # last.arg /\ handle[a] = "held" /\ node[a].st = "live"

\* C6: a create_filter_context the engine rejects returns CreateFilterError,
\* hands out no handle and changes no node and no graph, so that the graph
\* stays usable.
C6_RejectedCreate ==
    [][last'.op = "create_filter_context" =>
          /\ last'.ret < 0 <=> last'.res = "CreateFilterError"
          /\ last'.ret >= 0 <=> last'.res = "Ok"
          /\ last'.ret < 0 => node' = node /\ handle' = handle /\ graph' = graph]_vars

\* A create succeeded right after a rejected one on the same graph, with the
\* handle of an earlier node still held.
C6_Witness ==
    /\ last.op = "create_filter_context" /\ last.res = "Ok"
    /\ last.prev = "CreateFilterError"
    /\ \E a \in NodeAddrs : a # last.arg /\ handle[a] = "held" /\ node[a].st = "live"
              /\ node[a].graph = node[last.arg].graph

QueueOf(a) == graph[node[a].graph].queue
Configured(a) == graph[node[a].graph].configured

\* No frame can be pushed any more: no source handle is held.
NoMoreInput == \A a \in NodeAddrs : IsSource(a) => handle[a] # "held"

Dangling(g) == graph[g].parsed = "open" \/ \E n \in NodesOf(g) : node[n].open

C9_Lookup ==
    /\ registry = Registered
    /\ last.op = "get_by_name" =>
          /\ last.res = "Ok" <=> last.name \in Registered
          /\ last.res # "Ok" => last.res = "FilterNotFound"

\* A kind has been looked up again right after its handle was dropped.
C9_Witness == last.op = "get_by_name" /\ last.res = "Ok" /\ last.prev = "dropped"

\* C10: a push with no frame that the source accepts leaves the end-of-stream
\* marker on that source and no frame in the buffer, and every negative
\* status of a push, with or without a frame, is BufferSrcAddFrameError.
C10_Push ==
    [][last'.op = "buffersrc_add_frame_flags" =>
          /\ last'.ret < 0 <=> last'.res = "BufferSrcAddFrameError"
          /\ last'.ret >= 0 <=> last'.res = "Ok"
          /\ \A a \in NodeAddrs :
                (last'.arg = a /\ last'.frame = NoFrame /\ last'.res = "Ok" /\ IsSource(a)) =>
                    graph'[node[a].graph].eof = a /\ QueueOf(a)' = QueueOf(a)]_vars

\* The source has just accepted the end-of-stream marker.
C10_Witness == IsPush /\ last.frame = NoFrame /\ last.res = "Ok" /\ IsSource(last.arg)

\* C11 as stated: a push reaches the engine's buffer source only with a
\* source node, and a pull reaches the buffer sink only with a sink node.
C11_Original ==
    /\ IsPush => IsSource(last.arg)
    /\ IsPull => IsSink(last.arg)

\* The operations that call a status-returning routine of the engine.
EngineOps == {"set_property", "buffersrc_add_frame_flags", "buffersink_get_frame",
              "create_filter_context", "parse_ptr", "config"}

\* C12: each of set_property, push, pull, create, parse and config returns an
\* error exactly when the status of its engine call is negative, and its
\* effect is that of one call: a successful pull takes one frame, a
\* successful push of a frame adds one, a successful create adds one node,
\* and a failed push, pull, create or config leaves graph and nodes as they
\* were (nothing is retried behind the caller's back).
C12_OneCallOneAnswer ==
    [][last'.op \in EngineOps =>
          /\ last'.ret < 0 <=> last'.res # "Ok"
          /\ \A a \in NodeAddrs :
                (last'.op = "buffersink_get_frame" /\ last'.arg = a /\ IsSink(a)) =>
                    /\ last'.res = "Ok" => QueueOf(a)' = Tail(QueueOf(a))
                    /\ last'.res # "Ok" => graph' = graph
          /\ \A a \in NodeAddrs :
                (last'.op = "buffersrc_add_frame_flags" /\ last'.arg = a /\ IsSource(a)) =>
                    /\ (last'.res = "Ok" /\ last'.frame # NoFrame) =>
                           Len(QueueOf(a)') = Len(QueueOf(a)) + 1
                    /\ last'.res # "Ok" => graph' = graph
          /\ last'.op = "create_filter_context" =>
                Cardinality({a \in NodeAddrs : node'[a] # node[a]}) =
                    IF last'.res = "Ok" THEN 1 ELSE 0
          /\ (last'.op = "config" /\ last'.res # "Ok") => graph' = graph]_vars

\* A pull on the sink of a configured graph has just been told to try again.
C12_Witness ==
    /\ IsPull /\ IsSink(last.arg) /\ last.res = "BufferSinkDrainError"
    /\ graph[node[last.arg].graph].configured

\* C13 as stated: no push hands a frame to a graph, and no pull returns one,
\* before config has succeeded on that graph.
C13_Original ==
    /\ (IsPush /\ IsSource(last.arg) /\ last.res = "Ok" /\ last.frame # NoFrame) =>
           Configured(last.arg)
    /\ (IsPull /\ IsSink(last.arg) /\ last.res = "Ok") => Configured(last.arg)

C15_ChainReleasedOnce ==
    \A v \in Vals :
        padlist[v].st = "dropped" =>
            /\ padlist[v].drops = 1
            /\ \A q \in Chain(inout, padlist[v].ptr) :
                   inout[q].st = "freed" /\ inout[q].frees = 1

\* A pad list of two list nodes has been dropped.
C15_Witness ==
    \E v \in Vals :
        /\ padlist[v].st = "dropped"
        /\ Cardinality(Chain(inout, padlist[v].ptr)) = 2

\* C16: a node is released once, by the drop of its graph, which releases
\* every node of that graph; no other operation (create, parse, config,
\* set_property, push, pull, creation or drop of a pad list, drop of a
\* handle) releases, removes or revives a node.
C16_NodesReleasedWithGraph ==
    [][\A a \in NodeAddrs :
          /\ (node[a].st = "live" /\ node'[a].st # "live") =>
                 /\ last'.op = "graph_drop" /\ last'.arg = node[a].graph
                 /\ node'[a].st = "freed"
          /\ node[a].st = "freed" => node'[a] = node[a]
          /\ (last'.op = "graph_drop" /\ node[a].st = "live" /\ node[a].graph = last'.arg) =>
                 node'[a].st = "freed"]_vars

\* A graph has been released with its two nodes, after a parse had failed on
\* it and frames had gone through it.
C16_Witness ==
    /\ last.op = "graph_drop"
    /\ \A a \in NodeAddrs : node[a].st = "freed" /\ node[a].graph = last.arg
    /\ \E v \in Vals : padlist[v].parsed = "err"
    /\ \E a \in NodeAddrs : node[a].seen > 0

\* An owned pad list names node a.
PadListNames(v, a) ==
    /\ padlist[v].st = "owned"
    /\ \E q \in Chain(inout, padlist[v].ptr) : inout[q].ctx = a

\* C17: pad lists are not bound to the graph: a graph none of whose handles
\* is held can be dropped whatever pad lists are owned, and an owned pad
\* list stays live engine memory whatever has happened to the node it names.
C17_PadListsUnbound ==
    /\ \A g \in Graphs :
          (graph[g].st = "live" /\ \A a \in NodeAddrs : node[a].graph = g => handle[a] # "held")
              => ENABLED AVFilterGraph_drop(g)
    /\ \A v \in Vals :
          padlist[v].st = "owned" =>
              \A q \in Chain(inout, padlist[v].ptr) : inout[q].st = "live"

\* A live, owned pad list names a node that was released with its graph.
C17_Witness ==
    \E v \in Vals, a \in NodeAddrs : PadListNames(v, a) /\ node[a].st = "freed"

\* C18: AVFilterInOut::new allocates exactly one list node and returns it as
\* one new owned value: the list node names the given node, pad 0, has no
\* next, and its name is the caller's string in memory of the engine's own;
\* no other list node and no other value changes.
C18_NewPadList ==
    [][last'.op = "inout_new" =>
          \E p \in InOutAddrs :
              /\ inout[p].st = "none"
              /\ inout'[p] = [st |-> "live", name |-> last'.name, own |-> "engine",
                              ctx |-> last'.arg, pad |-> 0, next |-> 0, frees |-> 0]
              /\ \A q \in InOutAddrs \ {p} : inout'[q] = inout[q]
              /\ Chain(inout', p) = {p}
              /\ padlist' = Append(padlist, [ptr |-> p, st |-> "owned", parsed |-> "no",
                                             drops |-> 0])]_vars

\* A pad list has just been created for the sink while the one created for
\* the source is still owned.
C18_Witness ==
    /\ last.op = "inout_new" /\ IsSink(last.arg) /\ last.name = "out"
    /\ \E v \in Vals : padlist[v].st = "owned" /\ inout[padlist[v].ptr].name = "in"

\* The values that own list node p.
Owners(p) ==
    {v \in Vals : padlist[v].st = "owned" /\ p \in Chain(inout, padlist[v].ptr)}

\* C19: a live list node has exactly one owning value and a released one has
\* none; no list node is released twice.  So the memory a successful parse
\* hands back is owned by the returned value alone, also when it is the
\* memory of an argument, and its release is the one by that value's drop.
C19_SingleOwner ==
    \A p \in InOutAddrs :
        /\ inout[p].st = "live" => Cardinality(Owners(p)) = 1
        /\ inout[p].st # "live" => Owners(p) = {}
        /\ inout[p].frees <= 1
        /\ inout[p].frees = 1 <=> inout[p].st = "freed"

\* A successful parse handed back the memory of an argument: the argument is
\* disarmed and the returned value owns the list, which is live.
C19_Witness ==
    \E v, u \in Vals :
        /\ padlist[v].parsed = "ok" /\ padlist[v].st = "disarmed"
        /\ u # v /\ padlist[u].ptr = padlist[v].ptr /\ padlist[u].st = "owned"
        /\ inout[padlist[u].ptr].st = "live"

\* C20: the frame a pull allocates never stays with the wrapper: a
\* successful pull hands it to the caller, and on BufferSinkDrainError,
\* BufferSinkEofError and BufferSinkGetFrameError it is released before the
\* call returns and the caller gets none, however often the pull is repeated.
C20_PullFrames ==
    /\ \A a \in NodeAddrs : node[a].unreleased = 0
    /\ (IsPull /\ IsSink(last.arg) /\ last.res = "Ok") => last.frame # NoFrame
    /\ (IsPull /\ last.res \in {"BufferSinkDrainError", "BufferSinkEofError",
                                 "BufferSinkGetFrameError"}) => last.frame = NoFrame

\* A second failing pull in a row has just returned.
C20_Witness ==
    /\ IsPull /\ last.res = "BufferSinkEofError"
    /\ node[last.arg].seen = 2 /\ node[last.arg].unreleased = 0
====
